---- MODULE Spec2Model ----
(***************************************************************************)
(* Model of the downscaling repository:                                    *)
(*   project/dataset.py  DownscalingDataset, spliting_indices,             *)
(*                       merge_out_data, make_clean_data                   *)
(*   project/models.py   SinusoidalPositionEmbeddings, Block, SimpleUnet   *)
(* Arrays are sequences (the leading axis), tensors are their shapes.      *)
(* Each component has its own specification: SpecDataset, SpecSplit,       *)
(* SpecEmbed, SpecUnet, SpecClean.                                         *)
(***************************************************************************)
EXTENDS Integers, Sequences, FiniteSets

VARIABLES
    \* ---- DownscalingDataset (dataset.py 11-59)
    ds_pc,            \* "new" | "constructed" | "failed"
    ds_low_in,        \* argument low_res_data
    ds_high_in,       \* argument high_res_data
    ds_indices,       \* argument indices: None or a sequence of integers
    low_res_data,     \* self.low_res_data
    high_res_data,    \* self.high_res_data
    ds_err,           \* exception raised by the last call, or "none"
    ds_ret,           \* value returned by the last __len__ / __getitem__ call
    \* ---- spliting_indices (dataset.py 61-66)
    sp_pc,            \* "call" | "done"
    sp_n,             \* argument n
    sp_val,           \* val_pct  = sp_val / PctDen
    sp_test,          \* test_pct = sp_test / PctDen
    sp_ret,           \* the returned triple of index arrays
    \* ---- SinusoidalPositionEmbeddings (models.py 9-22)
    em_pc,            \* "call" | "done" | "failed"
    em_dim,           \* self.dim
    em_time,          \* argument time: a vector of timesteps
    em_ret,           \* the returned matrix, a sequence of rows
    em_err,
    \* ---- SimpleUnet (models.py 120-176)
    un_pc,            \* position in __init__ / forward
    un_cfg,           \* constructor arguments and the module's training flag
    un_input,         \* shape of the forward argument x; timestep has shape [b]
    down_channels,    \* self.down_channels
    up_channels,      \* self.up_channels
    up_in_channels,   \* self.up_in_channels
    un_t,             \* shape of t, the time embedding
    un_x,             \* shape of x
    residual_inputs,  \* the skip stack: shapes, top last
    residual_x,       \* shape of the entry popped last
    un_i,             \* loop index i
    un_pushes,        \* residual_inputs.append calls so far
    un_pops,          \* residual_inputs.pop calls so far
    un_err,
    \* ---- make_clean_data (dataset.py 69-106)
    mc_pc,            \* position in make_clean_data
    mc_in_vars,       \* argument in_vars
    mc_start,         \* argument start_year
    mc_end,           \* argument end_year
    out_data,         \* merged high-resolution field
    out_date,         \* merged high-resolution timestamps
    in_data,          \* low-resolution field, None before the first variable
    mc_k,             \* number of in_vars loaded so far
    low_index,
    high_index,
    mc_ret,           \* the returned value
    mc_err,
    mc_io             \* files read so far

dsVars == <<ds_pc, ds_low_in, ds_high_in, ds_indices, low_res_data, high_res_data,
            ds_err, ds_ret>>
spVars == <<sp_pc, sp_n, sp_val, sp_test, sp_ret>>
emVars == <<em_pc, em_dim, em_time, em_ret, em_err>>
unVars == <<un_pc, un_cfg, un_input, down_channels, up_channels, up_in_channels,
            un_t, un_x, residual_inputs, residual_x, un_i, un_pushes, un_pops, un_err>>
mcVars == <<mc_pc, mc_in_vars, mc_start, mc_end, out_data, out_date, in_data, mc_k,
            low_index, high_index, mc_ret, mc_err, mc_io>>
vars == <<dsVars, spVars, emVars, unVars, mcVars>>
notDs == <<spVars, emVars, unVars, mcVars>>
notSp == <<dsVars, emVars, unVars, mcVars>>
notEm == <<dsVars, spVars, unVars, mcVars>>
notUn == <<dsVars, spVars, emVars, mcVars>>
notMc == <<dsVars, spVars, emVars, unVars>>

\* Sequences over S of length at most n.
SeqUpTo(S, n) == UNION {[1..k -> S] : k \in 0..n}

Min(a, b) == IF a < b THEN a ELSE b
Max(a, b) == IF a > b THEN a ELSE b

(***************************************************************************)
(* Python / numpy indexing                                                 *)
(***************************************************************************)
\* Python slice bound normalisation: negative bounds count from the end,
\* and bounds are clipped to [0, len].
ClipIndex(k, len) == IF k < 0 THEN Max(k + len, 0) ELSE Min(k, len)

\* s[a:b] with Python semantics (0-based, half-open, clipped, never fails).
Slice(s, a, b) ==
    LET lo == ClipIndex(a, Len(s))
        hi == ClipIndex(b, Len(s))
    IN  IF hi <= lo THEN <<>> ELSE SubSeq(s, lo + 1, hi)

\* s[a:] with Python semantics.
SliceFrom(s, a) == Slice(s, a, Len(s))

\* Whether integer index k addresses an element of an array of length len.
InBounds(k, len) == -len <= k /\ k < len

\* arr[k] for an in-bounds integer index (negative indices count from the end).
Item(arr, k) == IF k >= 0 THEN arr[k + 1] ELSE arr[Len(arr) + k + 1]

\* arr[idx] for an integer index array idx (numpy gather); IndexError when
\* any index is out of bounds.
GatherOk(arr, idx) == \A j \in 1..Len(idx) : InBounds(idx[j], Len(arr))
Gather(arr, idx) == [j \in 1..Len(idx) |-> Item(arr, idx[j])]

(***************************************************************************)
(* DownscalingDataset                                                      *)
(***************************************************************************)
MaxLen == 3          \* longest input array
MaxIdx == 2          \* longest index subset

\* The rows of the two input arrays are told apart by their values.
LowArr(n) == [i \in 1..n |-> i]
HighArr(n) == [i \in 1..n |-> 10 + i]

\* The indices argument: None, or an integer index array.
NoIndices == [given |-> FALSE, idx |-> <<>>]
IndexSets == {NoIndices} \cup
             {[given |-> TRUE, idx |-> q] : q \in SeqUpTo(-1..(MaxLen - 1), MaxIdx)}

DsInit ==
    /\ ds_pc = "new"
    /\ ds_low_in \in {LowArr(n) : n \in 0..MaxLen}
    /\ ds_high_in \in {HighArr(n) : n \in 0..MaxLen}
    /\ ds_indices \in IndexSets
    /\ low_res_data = <<>>
    /\ high_res_data = <<>>
    /\ ds_err = "none"
    /\ ds_ret = [kind |-> "none"]

DsIdle ==
    /\ ds_pc = "idle"
    /\ ds_low_in = <<>>
    /\ ds_high_in = <<>>
    /\ ds_indices = NoIndices
    /\ low_res_data = <<>>
    /\ high_res_data = <<>>
    /\ ds_err = "none"
    /\ ds_ret = [kind |-> "none"]

\* The length check that ends __init__ (lines 33-34).
LengthCheck(low, high) == Len(low) # Len(high)

\* DownscalingDataset.__init__
DatasetInit ==
    /\ ds_pc = "new"
    /\ UNCHANGED <<ds_low_in, ds_high_in, ds_indices, ds_ret>>
    /\ UNCHANGED notDs
    /\ IF ds_indices.given
       THEN IF ~GatherOk(ds_low_in, ds_indices.idx)
            THEN /\ ds_pc' = "failed"
                 /\ ds_err' = "IndexError"
                 /\ UNCHANGED <<low_res_data, high_res_data>>
            ELSE IF ~GatherOk(ds_high_in, ds_indices.idx)
            THEN /\ ds_pc' = "failed"
                 /\ ds_err' = "IndexError"
                 /\ low_res_data' = Gather(ds_low_in, ds_indices.idx)
                 /\ UNCHANGED high_res_data
            ELSE LET low == Gather(ds_low_in, ds_indices.idx)
                     high == Gather(ds_high_in, ds_indices.idx)
                 IN  /\ low_res_data' = low
                     /\ high_res_data' = high
                     /\ IF LengthCheck(low, high)
                        THEN ds_pc' = "failed" /\ ds_err' = "ValueError"
                        ELSE ds_pc' = "constructed" /\ ds_err' = "none"
       ELSE /\ low_res_data' = ds_low_in
            /\ high_res_data' = ds_high_in
            /\ IF LengthCheck(ds_low_in, ds_high_in)
               THEN ds_pc' = "failed" /\ ds_err' = "ValueError"
               ELSE ds_pc' = "constructed" /\ ds_err' = "none"

\* DownscalingDataset.__len__
DatasetLen ==
    /\ ds_pc = "constructed"
    /\ ds_ret' = [kind |-> "len", len |-> Len(low_res_data)]
    /\ ds_err' = "none"
    /\ UNCHANGED <<ds_pc, ds_low_in, ds_high_in, ds_indices, low_res_data, high_res_data>>
    /\ UNCHANGED notDs

\* DownscalingDataset.__getitem__
DatasetGetItem ==
    /\ ds_pc = "constructed"
    /\ \E idx \in -1..MaxLen :
         IF InBounds(idx, Len(low_res_data))
         THEN /\ ds_ret' = [kind |-> "sample",
                            low_res |-> Item(low_res_data, idx),
                            high_res |-> Item(high_res_data, idx)]
              /\ ds_err' = "none"
         ELSE /\ ds_ret' = [kind |-> "none"]
              /\ ds_err' = "IndexError"
    /\ UNCHANGED <<ds_pc, ds_low_in, ds_high_in, ds_indices, low_res_data, high_res_data>>
    /\ UNCHANGED notDs

(***************************************************************************)
(* spliting_indices                                                        *)
(***************************************************************************)
MaxN == 4            \* largest n
PctDen == 4          \* percentages are the fractions k / PctDen

\* int(pct * n) for the non-negative fraction pct = k / PctDen.
IntOfProduct(k, n) == (k * n) \div PctDen

\* The outcomes of np.random.permutation(n): every ordering of 0..n-1.
Permutations(n) ==
    {p \in [1..n -> 0..(n - 1)] : \A i, j \in 1..n : i # j => p[i] # p[j]}

\* n_train (line 64); the variant forgets the test share.
NTrainBad(n, n_val, n_test) == n - n_val
NTrain(n, n_val, n_test) == n - n_val - n_test

SplitOf(indices, n, val, test) ==
    LET n_val == IntOfProduct(val, n)
        n_test == IntOfProduct(test, n)
        n_train == NTrain(n, n_val, n_test)
    IN  <<Slice(indices, 0, n_train),
          Slice(indices, n_train, n_train + n_val),
          SliceFrom(indices, n_train + n_val)>>

SpInit ==
    /\ sp_pc = "call"
    /\ sp_n \in 0..MaxN
    /\ sp_val \in 0..PctDen
    /\ sp_test \in 0..PctDen
    /\ sp_ret = <<>>

SpIdle ==
    /\ sp_pc = "idle"
    /\ sp_n = 0
    /\ sp_val = 0
    /\ sp_test = 0
    /\ sp_ret = <<>>

\* spliting_indices(n, val_pct, test_pct)
SplitingIndices ==
    /\ sp_pc = "call"
    /\ \E indices \in Permutations(sp_n) :
         sp_ret' = SplitOf(indices, sp_n, sp_val, sp_test)
    /\ sp_pc' = "done"
    /\ UNCHANGED <<sp_n, sp_val, sp_test>>
    /\ UNCHANGED notSp

(***************************************************************************)
(* SinusoidalPositionEmbeddings                                            *)
(***************************************************************************)
MaxDim == 7          \* largest embedding dimension
MaxBatch == 2        \* longest timestep vector / largest batch
MaxT == 2            \* largest timestep

\* An entry of the result is sin or cos of time[b] * freq[i], where
\* freq[i] = exp(-i * ln(10000) / (half_dim - 1)) > 0: the argument is zero
\* exactly when the timestep is zero, and then the value is known.
SinOf(t, i) == IF t = 0 THEN [fn |-> "zero", t |-> t, i |-> i]
                        ELSE [fn |-> "sin", t |-> t, i |-> i]
CosOf(t, i) == IF t = 0 THEN [fn |-> "one", t |-> t, i |-> i]
                        ELSE [fn |-> "cos", t |-> t, i |-> i]

HalfDim(dim) == dim \div 2

\* torch.cat((embeddings.sin(), embeddings.cos()), dim=-1) for one row; the
\* variant concatenates the cosines first.
CatSinCosBad(t, half) ==
    [j \in 1..(2 * half) |-> IF j <= half THEN CosOf(t, j - 1)
                                          ELSE SinOf(t, j - half - 1)]
CatSinCos(t, half) ==
    [j \in 1..(2 * half) |-> IF j <= half THEN SinOf(t, j - 1)
                                          ELSE CosOf(t, j - half - 1)]

\* math.log(10000) / (half_dim - 1) raises ZeroDivisionError for half_dim = 1.
EmbedFails(dim) == HalfDim(dim) - 1 = 0
Embed(time, dim) == [b \in 1..Len(time) |-> CatSinCos(time[b], HalfDim(dim))]

\* Width of the embedding of a non-empty batch.
EmbedWidth(dim) == Len(CatSinCos(0, HalfDim(dim)))

EmInit ==
    /\ em_pc = "call"
    /\ em_dim \in 0..MaxDim
    /\ em_time \in SeqUpTo(0..MaxT, MaxBatch)
    /\ em_ret = <<>>
    /\ em_err = "none"

EmIdle ==
    /\ em_pc = "idle"
    /\ em_dim = 0
    /\ em_time = <<>>
    /\ em_ret = <<>>
    /\ em_err = "none"

\* SinusoidalPositionEmbeddings.forward
EmbedForward ==
    /\ em_pc = "call"
    /\ IF EmbedFails(em_dim)
       THEN em_pc' = "failed" /\ em_err' = "ZeroDivisionError" /\ UNCHANGED em_ret
       ELSE em_pc' = "done" /\ em_ret' = Embed(em_time, em_dim) /\ UNCHANGED em_err
    /\ UNCHANGED <<em_dim, em_time>>
    /\ UNCHANGED notEm

(***************************************************************************)
(* Tensor shapes and the torch layers used by models.py                    *)
(***************************************************************************)
\* A 4-d tensor [b, c, h, w]; a failed operation yields the exception.
Shape(b, c, h, w) == [ok |-> TRUE, b |-> b, c |-> c, h |-> h, w |-> w]
Raise(e) == [ok |-> FALSE, err |-> e]
NoShape == Shape(0, 0, 0, 0)

\* Output length of a convolution along one spatial axis.
ConvOut(n, k, s, p) == (n + 2 * p - k) \div s + 1
\* Output length of a transposed convolution along one spatial axis.
ConvTransposeOut(n, k, s, p) == (n - 1) * s - 2 * p + k

\* nn.Conv2d(in_ch, out_ch, k, s, p) applied to x.
Conv2d(x, in_ch, out_ch, k, s, p) ==
    IF ~x.ok THEN x
    ELSE IF x.c # in_ch THEN Raise("RuntimeError: channels")
    ELSE IF x.h + 2 * p < k \/ x.w + 2 * p < k THEN Raise("RuntimeError: kernel size")
    ELSE Shape(x.b, out_ch, ConvOut(x.h, k, s, p), ConvOut(x.w, k, s, p))

\* nn.ConvTranspose2d(in_ch, out_ch, k, s, p) applied to x.
ConvTranspose2d(x, in_ch, out_ch, k, s, p) ==
    IF ~x.ok THEN x
    ELSE IF x.c # in_ch THEN Raise("RuntimeError: channels")
    ELSE Shape(x.b, out_ch, ConvTransposeOut(x.h, k, s, p), ConvTransposeOut(x.w, k, s, p))

\* nn.BatchNorm2d(num_features) applied to x: a module in training mode
\* refuses an input with a single value per channel.
BatchNorm2d(x, num_features, training) ==
    IF ~x.ok THEN x
    ELSE IF x.c # num_features THEN Raise("RuntimeError: channels")
    ELSE IF training /\ x.b * x.h * x.w = 1 THEN Raise("ValueError: one value per channel")
    ELSE x

\* nn.Linear(in_features, out_features) applied to a [b, width] matrix,
\* given as the pair <<b, width>>.
Linear(m, in_features, out_features) ==
    IF m[2] # in_features THEN Raise("RuntimeError: mat shapes")
    ELSE [ok |-> TRUE, b |-> m[1], width |-> out_features]

\* h + time_emb, time_emb of shape [tb, tc, 1, 1] (broadcast over h and w).
AddTimeEmb(h, tb, tc) ==
    IF ~h.ok THEN h
    ELSE IF tc # h.c /\ tc # 1 /\ h.c # 1 THEN Raise("RuntimeError: broadcast")
    ELSE IF tb # h.b /\ tb # 1 /\ h.b # 1 THEN Raise("RuntimeError: broadcast")
    ELSE Shape(Max(h.b, tb), Max(h.c, tc), h.h, h.w)

\* torch.cat((x, r), dim=1): every axis but the channel axis must agree.
CatChannels(x, r) ==
    IF x.b # r.b \/ x.h # r.h \/ x.w # r.w THEN Raise("RuntimeError: cat sizes")
    ELSE Shape(x.b, x.c + r.c, x.h, x.w)

\* SpatialAttention.forward: the gate has shape [b, 1, h, w] and multiplies x.
SpatialAttention(x) ==
    IF ~x.ok THEN x
    ELSE LET avg_out == Shape(x.b, 1, x.h, x.w)
             max_out == Shape(x.b, 1, x.h, x.w)
             attention == Conv2d(CatChannels(avg_out, max_out), 2, 1, 7, 1, 3)
         IN  IF attention.ok THEN x ELSE attention

\* Block.forward for a block built as Block(in_ch, out_ch, time_emb_dim,
\* attention, up); t is the time embedding [t.b, t.width].  ReLU and Dropout
\* keep the shape.  self.transform halves (down) or doubles (up) the spatial
\* size; the variant builds the transposed convolution without padding.
BlockTransformBad(h, out_ch, up) ==
    IF up THEN ConvTranspose2d(h, out_ch, out_ch, 4, 2, 0)
          ELSE Conv2d(h, out_ch, out_ch, 4, 2, 1)
BlockTransform(h, out_ch, up) ==
    IF up THEN ConvTranspose2d(h, out_ch, out_ch, 4, 2, 1)
          ELSE Conv2d(h, out_ch, out_ch, 4, 2, 1)

BlockForward(x, t, in_ch, out_ch, time_emb_dim, attention, up, training) ==
    LET h1 == BatchNorm2d(Conv2d(x, in_ch, out_ch, 3, 1, 1), out_ch, training)
        time_emb == Linear(<<t.b, t.width>>, time_emb_dim, out_ch)
        h2 == IF ~h1.ok THEN h1
              ELSE IF ~time_emb.ok THEN time_emb
              ELSE AddTimeEmb(h1, time_emb.b, time_emb.width)
        h3 == BatchNorm2d(Conv2d(h2, out_ch, out_ch, 3, 1, 1), out_ch, training)
        h4 == IF attention THEN SpatialAttention(h3) ELSE h3
    IN  BlockTransform(h4, out_ch, up)

(***************************************************************************)
(* SimpleUnet                                                              *)
(***************************************************************************)
MaxPlanLen == 3      \* longest channel plan
MaxSize == 8         \* largest input height and width
Widths == {2, 3}     \* channel widths a plan is drawn from
Channels == {1, 3}   \* input / output channel counts
Batches == {1, 2}    \* batch sizes
TimeEmbDims == {2, 3, 4, 32}

Reverse(s) == [j \in 1..Len(s) |-> s[Len(s) + 1 - j]]

\* self.up_in_channels (line 131), for a non-empty up_channels; the variant
\* omits the doubling that absorbs the skip connection.
UpInChannelsBad(up) == [j \in 1..Len(up) |-> up[j]]
UpInChannels(up) == [j \in 1..Len(up) |-> IF j = 1 THEN up[1] ELSE up[j] * 2]

\* len(self.downs) and len(self.ups)
NumDowns == Len(down_channels) - 1
NumUps == Len(up_channels) - 1

\* Whether down stage i (0-based) pushes its output (line 167).
Pushes(i) == i < NumDowns - 1

\* Whether up stage i (0-based) pops a skip entry (line 170).
Pops(i) == i # 0

UnInit ==
    /\ un_pc = "new"
    /\ un_cfg \in [unet_channels : SeqUpTo(Widths, MaxPlanLen),
                   input_channels : Channels,
                   output_channels : Channels,
                   time_emb_dim : TimeEmbDims,
                   attention : BOOLEAN,
                   training : BOOLEAN]
    /\ un_input \in {Shape(b, c, h, w) :
                       b \in Batches, c \in Channels, h \in 1..MaxSize, w \in 1..MaxSize}
    /\ down_channels = <<>>
    /\ up_channels = <<>>
    /\ up_in_channels = <<>>
    /\ un_t = [ok |-> TRUE, b |-> 0, width |-> 0]
    /\ un_x = NoShape
    /\ residual_inputs = <<>>
    /\ residual_x = NoShape
    /\ un_i = 0
    /\ un_pushes = 0
    /\ un_pops = 0
    /\ un_err = "none"

UnIdle ==
    /\ un_pc = "idle"
    /\ un_cfg = [unet_channels |-> <<>>, input_channels |-> 0, output_channels |-> 0,
                 time_emb_dim |-> 0, attention |-> FALSE, training |-> FALSE]
    /\ un_input = NoShape
    /\ down_channels = <<>>
    /\ up_channels = <<>>
    /\ up_in_channels = <<>>
    /\ un_t = [ok |-> TRUE, b |-> 0, width |-> 0]
    /\ un_x = NoShape
    /\ residual_inputs = <<>>
    /\ residual_x = NoShape
    /\ un_i = 0
    /\ un_pushes = 0
    /\ un_pops = 0
    /\ un_err = "none"

\* SimpleUnet.__init__: an empty plan fails at self.up_channels[0].
UnetInit ==
    /\ un_pc = "new"
    /\ IF Len(un_cfg.unet_channels) = 0
       THEN /\ un_pc' = "failed"
            /\ un_err' = "IndexError"
            /\ UNCHANGED <<down_channels, up_channels, up_in_channels>>
       ELSE /\ un_pc' = "forward"
            /\ down_channels' = un_cfg.unet_channels
            /\ up_channels' = Reverse(un_cfg.unet_channels)
            /\ up_in_channels' = UpInChannels(Reverse(un_cfg.unet_channels))
            /\ UNCHANGED un_err
    /\ UNCHANGED <<un_cfg, un_input, un_t, un_x, residual_inputs, residual_x, un_i,
                   un_pushes, un_pops>>
    /\ UNCHANGED notUn

\* forward, line 160: t = self.time_mlp(timestep), the embedding followed
\* by Linear(time_emb_dim, time_emb_dim) and ReLU.
TimeMlp(b, time_emb_dim) ==
    IF EmbedFails(time_emb_dim) THEN Raise("ZeroDivisionError")
    ELSE Linear(<<b, EmbedWidth(time_emb_dim)>>, time_emb_dim, time_emb_dim)

UnetEmbedTime ==
    /\ un_pc = "forward"
    /\ LET t == TimeMlp(un_input.b, un_cfg.time_emb_dim)
       IN  IF t.ok
           THEN un_t' = t /\ un_pc' = "conv0" /\ UNCHANGED un_err
           ELSE un_pc' = "failed" /\ un_err' = t.err /\ UNCHANGED un_t
    /\ UNCHANGED <<un_cfg, un_input, down_channels, up_channels, up_in_channels, un_x,
                   residual_inputs, residual_x, un_i, un_pushes, un_pops>>
    /\ UNCHANGED notUn

\* forward, lines 162-164: x = self.conv0(x); residual_inputs = [x]
UnetConv0 ==
    /\ un_pc = "conv0"
    /\ LET x == Conv2d(un_input, un_cfg.input_channels, down_channels[1], 3, 1, 1)
       IN  IF x.ok
           THEN /\ un_x' = x
                /\ residual_inputs' = <<x>>
                /\ un_pc' = IF NumDowns > 0 THEN "down"
                            ELSE IF NumUps > 0 THEN "up" ELSE "output"
                /\ UNCHANGED un_err
           ELSE /\ un_pc' = "failed"
                /\ un_err' = x.err
                /\ UNCHANGED <<un_x, residual_inputs>>
    /\ un_i' = 0
    /\ UNCHANGED <<un_cfg, un_input, down_channels, up_channels, up_in_channels, un_t,
                   residual_x, un_pushes, un_pops>>
    /\ UNCHANGED notUn

\* forward, lines 165-168: one iteration of the down loop.
UnetDown ==
    /\ un_pc = "down"
    /\ LET x == BlockForward(un_x, un_t, down_channels[un_i + 1], down_channels[un_i + 2],
                             un_cfg.time_emb_dim, un_cfg.attention, FALSE, un_cfg.training)
       IN  IF x.ok
           THEN /\ un_x' = x
                /\ IF Pushes(un_i)
                   THEN /\ residual_inputs' = Append(residual_inputs, x)
                        /\ un_pushes' = un_pushes + 1
                   ELSE UNCHANGED <<residual_inputs, un_pushes>>
                /\ IF un_i + 1 < NumDowns
                   THEN un_i' = un_i + 1 /\ un_pc' = "down"
                   ELSE un_i' = 0 /\ un_pc' = IF NumUps > 0 THEN "up" ELSE "output"
                /\ UNCHANGED un_err
           ELSE /\ un_pc' = "failed"
                /\ un_err' = x.err
                /\ UNCHANGED <<un_x, residual_inputs, un_pushes, un_i>>
    /\ UNCHANGED <<un_cfg, un_input, down_channels, up_channels, up_in_channels, un_t,
                   residual_x, un_pops>>
    /\ UNCHANGED notUn

\* forward, lines 170-171: residual_x = residual_inputs.pop()
UnetUpPop ==
    /\ un_pc = "up"
    /\ Pops(un_i)
    /\ IF Len(residual_inputs) = 0
       THEN /\ un_pc' = "failed"
            /\ un_err' = "IndexError: pop from empty list"
            /\ UNCHANGED <<residual_inputs, residual_x, un_pops>>
       ELSE /\ residual_x' = residual_inputs[Len(residual_inputs)]
            /\ residual_inputs' = SubSeq(residual_inputs, 1, Len(residual_inputs) - 1)
            /\ un_pops' = un_pops + 1
            /\ un_pc' = "cat"
            /\ UNCHANGED un_err
    /\ UNCHANGED <<un_cfg, un_input, down_channels, up_channels, up_in_channels, un_t,
                   un_x, un_i, un_pushes>>
    /\ UNCHANGED notUn

\* forward, line 173: x = torch.cat((x, residual_x), dim=1)
UnetUpCat ==
    /\ un_pc = "cat"
    /\ LET x == CatChannels(un_x, residual_x)
       IN  IF x.ok
           THEN un_x' = x /\ un_pc' = "upblock" /\ UNCHANGED un_err
           ELSE un_pc' = "failed" /\ un_err' = x.err /\ UNCHANGED un_x
    /\ UNCHANGED <<un_cfg, un_input, down_channels, up_channels, up_in_channels, un_t,
                   residual_inputs, residual_x, un_i, un_pushes, un_pops>>
    /\ UNCHANGED notUn

\* forward, line 174: x = up(x, t), the end of one iteration of the up loop.
UnetUpBlock ==
    /\ \/ un_pc = "upblock"
       \/ un_pc = "up" /\ ~Pops(un_i)
    /\ LET x == BlockForward(un_x, un_t, up_in_channels[un_i + 1], up_channels[un_i + 2],
                             un_cfg.time_emb_dim, un_cfg.attention, TRUE, un_cfg.training)
       IN  IF x.ok
           THEN /\ un_x' = x
                /\ IF un_i + 1 < NumUps
                   THEN un_i' = un_i + 1 /\ un_pc' = "up"
                   ELSE un_i' = un_i + 1 /\ un_pc' = "output"
                /\ UNCHANGED un_err
           ELSE /\ un_pc' = "failed"
                /\ un_err' = x.err
                /\ UNCHANGED <<un_x, un_i>>
    /\ UNCHANGED <<un_cfg, un_input, down_channels, up_channels, up_in_channels, un_t,
                   residual_inputs, residual_x, un_pushes, un_pops>>
    /\ UNCHANGED notUn

\* forward, lines 175-176: x = self.output(x); return x
UnetOutput ==
    /\ un_pc = "output"
    /\ LET x == Conv2d(un_x, up_channels[Len(up_channels)], un_cfg.output_channels, 1, 1, 0)
       IN  IF x.ok
           THEN un_x' = x /\ un_pc' = "done" /\ UNCHANGED un_err
           ELSE un_pc' = "failed" /\ un_err' = x.err /\ UNCHANGED un_x
    /\ UNCHANGED <<un_cfg, un_input, down_channels, up_channels, up_in_channels, un_t,
                   residual_inputs, residual_x, un_i, un_pushes, un_pops>>
    /\ UNCHANGED notUn

(***************************************************************************)
(* merge_out_data and make_clean_data                                      *)
(***************************************************************************)
FirstYear == 2010    \* first year of the archive (lines 86, 90)
LastYear == 2020     \* last year of the archive (lines 86, 90)
EpochYear == 1970    \* origin of datetime.timestamp()
HoursPerYear == 3    \* model scale: timestamps per year
YearMargin == 1      \* requested years range over FirstYear-1 .. LastYear+1

\* datetime(year, 1, 1, 1).timestamp(), in model hours.
Stamp(year) == (year - EpochYear) * HoursPerYear + 1

\* The files download/cerra/si10-<year>.npy and datetime_<year>.npy.  A
\* regular year holds one row per hour from 01:00 of January 1st on; one year
\* of the archive may be irregular.
YearFile(year, defect) ==
    LET regular == [h \in 1..HoursPerYear |-> Stamp(year) + h - 1]
        dt == CASE defect = "none" -> regular
                [] defect = "shifted" -> [h \in 1..HoursPerYear |-> regular[h] + 1]
                [] defect = "dup" -> <<Stamp(year)>> \o regular
                [] defect = "empty" -> <<>>
    IN  [data |-> [h \in 1..Len(dt) |-> <<year, h>>], dt |-> dt]

Disks ==
    {[y \in FirstYear..LastYear |-> YearFile(y, IF y = d THEN k ELSE "none")] :
        d \in FirstYear..LastYear, k \in {"none", "shifted", "dup", "empty"}}

\* merge_out_data(start_year, end_year) over the files of disk: the
\* concatenation, in year order, of the yearly fields and timestamps.
RECURSIVE MergeOutData(_, _, _)
MergeOutData(disk, start_year, end_year) ==
    IF start_year > end_year THEN [data |-> <<>>, dt |-> <<>>]
    ELSE LET rest == MergeOutData(disk, start_year, end_year - 1)
         IN  [data |-> rest.data \o disk[end_year].data,
              dt |-> rest.dt \o disk[end_year].dt]

\* The file download/era5/<in_var>-2010_2020.nc read as tmp_data, after
\* np.expand_dims(..., axis=3): n time steps, one variable per row.
LowFile(in_var, n) == [t \in 1..n |-> <<<<in_var, t>>>>]

\* Time-axis lengths a low-resolution file may have, given the length of
\* the merged high-resolution archive.
LowLengths(n) == {k \in {n, n - 1, n + 1, HoursPerYear + 1} : k >= 0}

\* np.concatenate((in_data, tmp_data), axis=3): all other axes must agree.
ConcatVarsOk(a, b) == Len(a) = Len(b)
ConcatVars(a, b) == [t \in 1..Len(a) |-> a[t] \o b[t]]

\* np.where(arr == v)[0]: the 0-based indices of the entries equal to v.
Where(arr, v) == {j \in 0..(Len(arr) - 1) : arr[j + 1] = v}

\* np.where(arr == v)[0][0], defined when Where(arr, v) is not empty; the
\* variant takes the last match.
FirstMatchBad(arr, v) ==
    CHOOSE j \in Where(arr, v) : \A k \in Where(arr, v) : k <= j
FirstMatch(arr, v) ==
    CHOOSE j \in Where(arr, v) : \A k \in Where(arr, v) : j <= k

\* The validation of line 86.
YearsRejected(start_year, end_year) == start_year < FirstYear \/ end_year > LastYear

NoData == [set |-> FALSE, rows |-> <<>>]
Data(rows) == [set |-> TRUE, rows |-> rows]
RetPending == [kind |-> "pending"]

McInit ==
    /\ mc_pc = "call"
    /\ mc_in_vars \in {<<>>, <<"u10">>, <<"u10", "v10">>}
    /\ mc_start \in (FirstYear - YearMargin)..(LastYear + YearMargin)
    /\ mc_end \in (FirstYear - YearMargin)..(LastYear + YearMargin)
    /\ out_data = <<>>
    /\ out_date = <<>>
    /\ in_data = NoData
    /\ mc_k = 0
    /\ low_index = -1
    /\ high_index = -1
    /\ mc_ret = RetPending
    /\ mc_err = "none"
    /\ mc_io = 0

McIdle ==
    /\ mc_pc = "idle"
    /\ mc_in_vars = <<>>
    /\ mc_start = 0
    /\ mc_end = 0
    /\ out_data = <<>>
    /\ out_date = <<>>
    /\ in_data = NoData
    /\ mc_k = 0
    /\ low_index = -1
    /\ high_index = -1
    /\ mc_ret = RetPending
    /\ mc_err = "none"
    /\ mc_io = 0

\* make_clean_data, lines 86-88: a rejected range prints a message and
\* returns None.
MakeCleanValidate ==
    /\ mc_pc = "call"
    /\ IF YearsRejected(mc_start, mc_end)
       THEN mc_pc' = "returned" /\ mc_ret' = [kind |-> "None"]
       ELSE mc_pc' = "merge" /\ UNCHANGED mc_ret
    /\ UNCHANGED <<mc_in_vars, mc_start, mc_end, out_data, out_date, in_data, mc_k,
                   low_index, high_index, mc_err, mc_io>>
    /\ UNCHANGED notMc

\* make_clean_data, line 90: out_data, out_date = merge_out_data(2010, 2020);
\* two files are read per year.
MakeCleanMerge ==
    /\ mc_pc = "merge"
    /\ \E disk \in Disks :
         LET merged == MergeOutData(disk, FirstYear, LastYear)
         IN  out_data' = merged.data /\ out_date' = merged.dt
    /\ mc_io' = mc_io + 2 * (LastYear - FirstYear + 1)
    /\ mc_pc' = IF Len(mc_in_vars) > 0 THEN "load" ELSE "locate_low"
    /\ UNCHANGED <<mc_in_vars, mc_start, mc_end, in_data, mc_k, low_index, high_index,
                   mc_ret, mc_err>>
    /\ UNCHANGED notMc

\* make_clean_data, lines 92-99: one iteration of the loop over in_vars.
MakeCleanLoad ==
    /\ mc_pc = "load"
    /\ \E n \in LowLengths(Len(out_data)) :
         LET tmp_data == LowFile(mc_in_vars[mc_k + 1], n)
         IN  IF ~in_data.set
             THEN /\ in_data' = Data(tmp_data)
                  /\ mc_pc' = IF mc_k + 1 < Len(mc_in_vars) THEN "load" ELSE "locate_low"
                  /\ UNCHANGED mc_err
             ELSE IF ConcatVarsOk(in_data.rows, tmp_data)
             THEN /\ in_data' = Data(ConcatVars(in_data.rows, tmp_data))
                  /\ mc_pc' = IF mc_k + 1 < Len(mc_in_vars) THEN "load" ELSE "locate_low"
                  /\ UNCHANGED mc_err
             ELSE /\ mc_pc' = "failed"
                  /\ mc_err' = "ValueError"
                  /\ UNCHANGED in_data
    /\ mc_k' = mc_k + 1
    /\ mc_io' = mc_io + 1
    /\ UNCHANGED <<mc_in_vars, mc_start, mc_end, out_data, out_date, low_index,
                   high_index, mc_ret>>
    /\ UNCHANGED notMc

\* make_clean_data, lines 101 and 103: low_index.
MakeCleanLocateLow ==
    /\ mc_pc = "locate_low"
    /\ LET low_hour == Stamp(mc_start)
       IN  IF Where(out_date, low_hour) = {}
           THEN mc_pc' = "failed" /\ mc_err' = "IndexError" /\ UNCHANGED low_index
           ELSE /\ low_index' = FirstMatch(out_date, low_hour)
                /\ mc_pc' = "locate_high"
                /\ UNCHANGED mc_err
    /\ UNCHANGED <<mc_in_vars, mc_start, mc_end, out_data, out_date, in_data, mc_k,
                   high_index, mc_ret, mc_io>>
    /\ UNCHANGED notMc

\* make_clean_data, lines 102 and 104: high_index.
MakeCleanLocateHigh ==
    /\ mc_pc = "locate_high"
    /\ LET high_hour == Stamp(mc_end)
       IN  IF Where(out_date, high_hour) = {}
           THEN mc_pc' = "failed" /\ mc_err' = "IndexError" /\ UNCHANGED high_index
           ELSE /\ high_index' = FirstMatch(out_date, high_hour)
                /\ mc_pc' = "slice"
                /\ UNCHANGED mc_err
    /\ UNCHANGED <<mc_in_vars, mc_start, mc_end, out_data, out_date, in_data, mc_k,
                   low_index, mc_ret, mc_io>>
    /\ UNCHANGED notMc

\* make_clean_data, line 106: the two slices; in_data is still None when
\* in_vars is empty.
MakeCleanReturn ==
    /\ mc_pc = "slice"
    /\ IF ~in_data.set
       THEN mc_pc' = "failed" /\ mc_err' = "TypeError" /\ UNCHANGED mc_ret
       ELSE /\ mc_ret' = [kind |-> "pair",
                          low |-> Slice(in_data.rows, low_index, high_index),
                          high |-> Slice(out_data, low_index, high_index)]
            /\ mc_pc' = "returned"
            /\ UNCHANGED mc_err
    /\ UNCHANGED <<mc_in_vars, mc_start, mc_end, out_data, out_date, in_data, mc_k,
                   low_index, high_index, mc_io>>
    /\ UNCHANGED notMc

(***************************************************************************)
(* Specifications                                                          *)
(***************************************************************************)
InitDataset == DsInit /\ SpIdle /\ EmIdle /\ UnIdle /\ McIdle
NextDataset == DatasetInit \/ DatasetLen \/ DatasetGetItem
SpecDataset == InitDataset /\ [][NextDataset]_vars

InitSplit == DsIdle /\ SpInit /\ EmIdle /\ UnIdle /\ McIdle
NextSplit == SplitingIndices
SpecSplit == InitSplit /\ [][NextSplit]_vars

InitEmbed == DsIdle /\ SpIdle /\ EmInit /\ UnIdle /\ McIdle
NextEmbed == EmbedForward
SpecEmbed == InitEmbed /\ [][NextEmbed]_vars

InitUnet == DsIdle /\ SpIdle /\ EmIdle /\ UnInit /\ McIdle
NextUnet == UnetInit \/ UnetEmbedTime \/ UnetConv0 \/ UnetDown \/ UnetUpPop
            \/ UnetUpCat \/ UnetUpBlock \/ UnetOutput
SpecUnet == InitUnet /\ [][NextUnet]_vars

InitClean == DsIdle /\ SpIdle /\ EmIdle /\ UnIdle /\ McInit
NextClean == MakeCleanValidate \/ MakeCleanMerge \/ MakeCleanLoad \/ MakeCleanLocateLow
             \/ MakeCleanLocateHigh \/ MakeCleanReturn
SpecClean == InitClean /\ [][NextClean]_vars


(***************************************************************************)
(* Properties                                                              *)
(***************************************************************************)
Range(q) == {q[j] : j \in 1..Len(q)}

\* C1: constructing the provider from arrays of different lengths always
\* fails with the length-mismatch error (ValueError), with or without an
\* index subset, and no provider is produced.
C1_MismatchAlwaysFails ==
    (ds_pc # "new" /\ Len(ds_low_in) # Len(ds_high_in))
        => (ds_pc = "failed" /\ ds_err = "ValueError")

\* m = floor((k / PctDen) * n)
IsFloorOfProduct(m, k, n) == m * PctDen <= k * n /\ k * n < (m + 1) * PctDen

\* C2: for val_pct + test_pct < 1 and every permutation, the three returned
\* arrays are pairwise disjoint, without repeated index, their union is
\* {0, ..., n-1}, and their sizes are n - floor(val_pct*n) - floor(test_pct*n),
\* floor(val_pct*n) and floor(test_pct*n).
C2_SplitPartition ==
    (sp_pc = "done" /\ sp_val + sp_test < PctDen) =>
        LET train == sp_ret[1]
            val == sp_ret[2]
            test == sp_ret[3]
        IN  /\ Range(train) \cap Range(val) = {}
            /\ Range(train) \cap Range(test) = {}
            /\ Range(val) \cap Range(test) = {}
            /\ Cardinality(Range(train)) = Len(train)
            /\ Cardinality(Range(val)) = Len(val)
            /\ Cardinality(Range(test)) = Len(test)
            /\ Range(train) \cup Range(val) \cup Range(test) = 0..(sp_n - 1)
            /\ IsFloorOfProduct(Len(val), sp_val, sp_n)
            /\ IsFloorOfProduct(Len(test), sp_test, sp_n)
            /\ Len(train) = sp_n - Len(val) - Len(test)
C2_Witness ==
    /\ sp_pc = "done"
    /\ sp_val + sp_test < PctDen
    /\ Len(sp_ret[1]) > 0 /\ Len(sp_ret[2]) > 0 /\ Len(sp_ret[3]) > 0
    /\ sp_ret[1] \o sp_ret[2] \o sp_ret[3] # [j \in 1..sp_n |-> j - 1]

\* The preconditions of C3: a plan of length L >= 2, an input whose channel
\* count is the configured one and whose height and width are multiples of
\* 2^(L-1).
PlanLen == Len(un_cfg.unet_channels)
Scale == 2 ^ (PlanLen - 1)
SizeFits ==
    /\ PlanLen >= 2
    /\ un_input.c = un_cfg.input_channels
    /\ un_input.h % Scale = 0
    /\ un_input.w % Scale = 0
ForwardReturnsInputSize ==
    /\ un_pc # "failed"
    /\ un_pc = "done" =>
         un_x = Shape(un_input.b, un_cfg.output_channels, un_input.h, un_input.w)

\* C3 as stated: for every plan of length L >= 2 and every input [B, C_in, H, W]
\* with H and W multiples of 2^(L-1), forward (default time embedding width)
\* completes without shape mismatch and returns [B, C_out, H, W].
C3_ForwardPreservesSize ==
    (SizeFits /\ un_cfg.time_emb_dim = 32) => ForwardReturnsInputSize

\* Values per channel of the feature map entering up stage 0.
BottleneckValues == un_input.b * (un_input.h \div Scale) * (un_input.w \div Scale)

\* C3 amended: the same, provided the time embedding width is even and at
\* least 4 and, for a module in training mode, the bottleneck feature map
\* holds more than one value per channel: B * H/2^(L-1) * W/2^(L-1) > 1.
C3_ForwardPreservesSizeAmended ==
    (/\ SizeFits
     /\ un_cfg.time_emb_dim % 2 = 0 /\ un_cfg.time_emb_dim >= 4
     /\ (un_cfg.training => BottleneckValues > 1))
        => ForwardReturnsInputSize
C3_Witness ==
    /\ un_pc = "done"
    /\ SizeFits
    /\ PlanLen = 3
    /\ un_cfg.training
    /\ un_cfg.input_channels # un_cfg.output_channels
    /\ un_x = Shape(un_input.b, un_cfg.output_channels, un_input.h, un_input.w)

\* The up pass has completed.
UpPassDone == un_pc \in {"output", "done"}

\* C4: when the up pass completes the skip stack is empty, for every plan of
\* length >= 2.
C4_StackEmptyAfterUpPass ==
    (UpPassDone /\ PlanLen >= 2) => residual_inputs = <<>>

\* The down pass has completed and the up pass has not begun.
DownPassDone == un_pc = "up" /\ un_i = 0

\* C5: pushes during the down pass equal pops during the up pass, the stack
\* holds one entry per down stage except the last when the down pass ends,
\* and no pop is attempted on an empty stack, for every plan of length >= 2.
C5_StackDiscipline ==
    /\ (UpPassDone /\ PlanLen >= 2) => un_pushes = un_pops
    /\ (DownPassDone /\ PlanLen >= 2) => Len(residual_inputs) = NumDowns - 1
    /\ un_err # "IndexError: pop from empty list"

\* C6: a year range outside the coverage (start_year < 2010 or
\* end_year > 2020) ends in a validation failure raised to the caller,
\* before any file is read.
C6_RejectedRangeRaises ==
    (mc_pc # "call" /\ (mc_start < 2010 \/ mc_end > 2020))
        => (mc_pc = "failed" /\ mc_io = 0)

\* j is the first 0-based index of out_date holding exactly v.
IsFirstExact(j, v) ==
    /\ j \in 0..(Len(out_date) - 1)
    /\ out_date[j + 1] = v
    /\ \A k \in 0..(j - 1) : out_date[k + 1] # v
Occurs(v) == \E j \in 1..Len(out_date) : out_date[j] = v
Located == mc_pc \in {"locate_low", "locate_high", "slice", "returned", "failed"}
                /\ ~YearsRejected(mc_start, mc_end)
                /\ ~(mc_pc = "failed" /\ mc_err = "ValueError")

\* C7: each boundary timestamp is located as the first index of the merged
\* timestamp array holding exactly that value; when a boundary has no exact
\* match the call fails with a lookup error and returns nothing.
C7_ExactFirstMatch ==
    /\ (Located /\ mc_pc \in {"locate_high", "slice", "returned"})
          => IsFirstExact(low_index, Stamp(mc_start))
    /\ (Located /\ mc_pc \in {"slice", "returned"})
          => IsFirstExact(high_index, Stamp(mc_end))
    /\ (Located /\ mc_pc # "locate_low" /\ ~Occurs(Stamp(mc_start)))
          => (mc_pc = "failed" /\ mc_err = "IndexError" /\ mc_ret = RetPending)
    /\ (Located /\ mc_pc \notin {"locate_low", "locate_high"} /\ ~Occurs(Stamp(mc_end)))
          => (mc_pc = "failed" /\ mc_err = "IndexError" /\ mc_ret = RetPending)
    /\ (Located /\ mc_pc = "returned")
          => mc_ret.high = Slice(out_data, low_index, high_index)
C7_Witness ==
    /\ mc_pc = "failed"
    /\ mc_err = "IndexError"
    /\ Occurs(Stamp(mc_start))
    /\ Cardinality(Where(out_date, Stamp(mc_start))) > 1
    /\ ~Occurs(Stamp(mc_end))
    /\ Occurs(Stamp(mc_end) + 1)

\* The result of the embedding is a B x D matrix, sines in the first D/2
\* columns and cosines in the last D/2, so that a zero timestep gives zeros
\* then ones.
IsSinCosMatrix ==
    /\ em_pc = "done"
    /\ Len(em_ret) = Len(em_time)
    /\ \A b \in 1..Len(em_ret) :
         /\ Len(em_ret[b]) = em_dim
         /\ \A j \in 1..Len(em_ret[b]) :
              LET e == em_ret[b][j]
                  first == 2 * j <= em_dim
              IN  /\ e.t = em_time[b]
                  /\ e.i = IF first THEN j - 1 ELSE j - 1 - em_dim \div 2
                  /\ e.fn = IF em_time[b] = 0
                            THEN (IF first THEN "zero" ELSE "one")
                            ELSE (IF first THEN "sin" ELSE "cos")

\* C8 as stated, for the even target dimensions of the embedding's contract:
\* the result is a B x D matrix of width exactly D, sines first and cosines
\* last.
C8_EmbeddingWidth == (em_pc # "call" /\ em_dim % 2 = 0) => IsSinCosMatrix

\* C8 amended: the same for every even D >= 4 (an odd D gives width D - 1,
\* and D = 2 or 3 raises ZeroDivisionError).
C8_EmbeddingWidthAmended ==
    /\ (em_pc # "call" /\ em_dim % 2 = 0 /\ em_dim >= 4) => IsSinCosMatrix
    /\ (em_pc # "call" /\ em_dim % 2 = 1 /\ em_dim \notin {3}) =>
          (em_pc = "done" /\ \A b \in 1..Len(em_ret) : Len(em_ret[b]) = em_dim - 1)
    /\ (em_pc # "call" /\ em_dim \in {2, 3}) =>
          (em_pc = "failed" /\ em_err = "ZeroDivisionError")
C8_Witness ==
    /\ em_pc = "done"
    /\ em_dim = 4
    /\ Len(em_time) = 2
    /\ em_time[1] = 0
    /\ em_time[2] # 0

\* At an up stage i >= 1 the popped entry matches the feature map in channel
\* count and spatial size, and the concatenation has the configured input
\* width; up stage 0 gets the last down width, unconcatenated.
PoppedMatches ==
    /\ un_pc = "cat" =>
         /\ un_i >= 1
         /\ residual_x.c = un_x.c
         /\ residual_x.h = un_x.h
         /\ residual_x.w = un_x.w
         /\ un_x.c + residual_x.c = up_in_channels[un_i + 1]
         /\ up_in_channels[un_i + 1] = 2 * un_cfg.unet_channels[PlanLen - un_i]
    /\ (un_pc = "up" /\ un_i = 0) =>
         /\ un_x.c = un_cfg.unet_channels[PlanLen]
         /\ un_x.c = up_in_channels[1]
    /\ un_pc = "upblock" => un_x.c = up_in_channels[un_i + 1]

\* C9 as stated: for every plan of length >= 2 (and every input).
C9_PoppedMatches == PlanLen >= 2 => PoppedMatches

\* C9 amended: for every plan of length L >= 2 and every input whose height
\* and width are multiples of 2^(L-1).
C9_PoppedMatchesAmended == SizeFits => PoppedMatches
C9_Witness ==
    /\ un_pc = "cat"
    /\ SizeFits
    /\ un_i = 1
    /\ un_cfg.unet_channels[2] # 2 * un_cfg.unet_channels[1]
    /\ un_x.c + residual_x.c = up_in_channels[2]

\* C10: whenever a pair is returned the two fields have the same length,
\* high_index - low_index, whatever the lengths of the stored archives.
C10_EqualLengths ==
    (mc_pc = "returned" /\ mc_ret.kind = "pair") =>
        /\ Len(mc_ret.low) = Len(mc_ret.high)
        /\ Len(mc_ret.low) = high_index - low_index

====
